---- MODULE Spec2Model ----
(***************************************************************************)
(* Model of assets/src/asset.rs: the AssetSpec key, the Cache<T> store     *)
(* (an FnvHashMap behind a parking_lot RwLock) and the Asset cache hooks.  *)
(*                                                                         *)
(* Every cache operation is one Rust statement of the shape                *)
(*     self.map.<lock>().<hash map operation>(..)                          *)
(* which a thread executes as: call and acquire the guard, run the hash map *)
(* operation on the memory behind the guard, drop the guard and return.    *)
(* A thread blocked in write() has had no effect yet, so a writer's call   *)
(* and the grant of its guard are one step; a reader's call and the grant  *)
(* of its guard are two, since what it may return depends on the writes    *)
(* that complete in between.                                               *)
(* The hash map operations that rewrite the table (insert, retain, clear)  *)
(* are modelled entry by entry, since they are not atomic in memory; only  *)
(* the lock keeps the intermediate tables away from other threads.         *)
(***************************************************************************)
EXTENDS Integers, FiniteSets, Sequences, TLC

\* ---------------------------------------------------------------- bounds
NThreads == 2
NNames == 2
NValues == 2
MaxCalls == 4
MaxLoads == 3

Threads == 1..NThreads
NoThread == 0
Values == 1..NValues

\* ------------------------------------------------------------- AssetSpec
\* AssetSpec::new(name, ext, store): the struct literal lists ext first.
AssetSpecNew(name, ext, store) == [ext |-> ext, name |-> name, store |-> store]

\* The keys the threads use: one extension, one store, NNames names.
Keys == {AssetSpecNew(n, "obj", 1) : n \in 1..NNames}

\* The field values used where the key itself is the subject: extensions,
\* names as byte strings ("a", "ab", "b") and store ids.
KeyExts == {"obj", "png"}
KeyNames == {<<97>>, <<97, 98>>}
KeyStores == {1, 2}
StrBytes(s) == IF s = "obj" THEN <<111, 98, 106>> ELSE <<112, 110, 103>>

\* #[derive(PartialEq, Eq)]: the fields are compared one by one.
\* Variant: the store is left out of the comparison.
AssetSpecEq_noStore(a, b) == a.ext = b.ext /\ a.name = b.name
AssetSpecEq(a, b) == a.ext = b.ext /\ a.name = b.name /\ a.store = b.store

\* Ord for str and String: byte-wise lexicographic, a proper prefix is less.
RECURSIVE StrCmp(_, _)
StrCmp(x, y) ==
    IF x = <<>> /\ y = <<>> THEN "Equal"
    ELSE IF x = <<>> THEN "Less"
    ELSE IF y = <<>> THEN "Greater"
    ELSE IF Head(x) < Head(y) THEN "Less"
    ELSE IF Head(x) > Head(y) THEN "Greater"
    ELSE StrCmp(Tail(x), Tail(y))
IntCmp(x, y) == IF x < y THEN "Less" ELSE IF x > y THEN "Greater" ELSE "Equal"
\* Ordering::then
Then(o, p) == IF o = "Equal" THEN p ELSE o

\* #[derive(PartialOrd, Ord)]: the fields are compared in declaration order,
\* ext, name, store.
\* Variant: compared in the order of the arguments of new, name first.
AssetSpecCmp_argOrder(a, b) ==
    Then(StrCmp(a.name, b.name),
         Then(StrCmp(StrBytes(a.ext), StrBytes(b.ext)), IntCmp(a.store, b.store)))
AssetSpecCmp(a, b) ==
    Then(StrCmp(StrBytes(a.ext), StrBytes(b.ext)),
         Then(StrCmp(a.name, b.name), IntCmp(a.store, b.store)))

\* FnvHasher::write, one byte, seen through the low 8 bits of the state
\* (xor and multiplication modulo 2^64 carry over to the low byte).
RECURSIVE Xor(_, _)
Xor(x, y) ==
    IF x = 0 THEN y
    ELSE IF y = 0 THEN x
    ELSE (((x % 2) + (y % 2)) % 2) + 2 * Xor(x \div 2, y \div 2)
FnvWrite(h, byte) == (Xor(h, byte) * 179) % 256
RECURSIVE FnvWriteAll(_, _)
FnvWriteAll(h, bytes) ==
    IF bytes = <<>> THEN h ELSE FnvWriteAll(FnvWrite(h, Head(bytes)), Tail(bytes))
\* Hash for str: the bytes, then 0xff.
StrHash(h, bytes) == FnvWrite(FnvWriteAll(h, bytes), 255)
\* #[derive(Hash)]: the fields are fed to the hasher in declaration order.
AssetSpecHash(a) ==
    FnvWrite(StrHash(StrHash(37, StrBytes(a.ext)), a.name), a.store)

\* Option<T>
None == <<>>
Some(v) == <<v>>
OptionValues == {None} \cup {Some(v) : v \in Values}

\* One Cache<T> per asset category that owns one.
Caches == {"mesh", "level"}

Entry == [key : Keys, val : Values]

\* The closures handed to retain: f(&key, &mut value) -> bool.  A closure
\* keeps the entries whose key is in f.keys and, when f.mutate, rewrites the
\* value in place before it answers.
Closures == [keys : SUBSET Keys, mutate : BOOLEAN]
NoClosure == [keys |-> {}, mutate |-> FALSE]
Bump(v) == (v % NValues) + 1
ClosureKeeps(f, k, v) == k \in f.keys
\* Variant: what the closure writes through &mut T is lost.
ClosureValue_original(f, k, v) == v
ClosureValue(f, k, v) == IF f.mutate THEN Bump(v) ELSE v

\* ------------------------------------------------------ hash map (pure)
\* FnvHashMap<AssetSpec, T> as the set of its occupied buckets.
\* Variant: keys compared by extension only.
HashMapBuckets_extOnly(m, k) == {e \in m : e.key.ext = k.ext}
HashMapBuckets(m, k) == {e \in m : AssetSpecEq(e.key, k)}
HashMapGet(m, k) ==
    IF HashMapBuckets(m, k) = {} THEN None
    ELSE Some((CHOOSE e \in HashMapBuckets(m, k) : TRUE).val)
\* Variant: the old pair stays in the table.
HashMapTake_keep(m, k) == m
\* insert, first half: take the old value out of the bucket of k.
HashMapTake(m, k) == m \ HashMapBuckets(m, k)
\* insert, second half: store the new pair.
HashMapPut(m, k, v) == m \cup {[key |-> k, val |-> v]}
\* Variant: the answer of f is read the wrong way round.
HashMapRetainOne_inverted(m, e, g) ==
    (m \ {e}) \cup
      (IF ~ClosureKeeps(g, e.key, e.val)
       THEN {[key |-> e.key, val |-> ClosureValue(g, e.key, e.val)]}
       ELSE {})
\* retain, one visited entry e: call f, keep the (rewritten) entry or drop it.
HashMapRetainOne(m, e, f) ==
    (m \ {e}) \cup
      (IF ClosureKeeps(f, e.key, e.val)
       THEN {[key |-> e.key, val |-> ClosureValue(f, e.key, e.val)]}
       ELSE {})
\* clear, one bucket.
HashMapClearOne(m, e) == m \ {e}

\* The map as a function from keys to Option<T>.
Contents(m) == [k \in Keys |-> HashMapGet(m, k)]
EmptyContents == [k \in Keys |-> None]

\* ------------------------------------------------------- RwLock (guards)
\* parking_lot::RwLock: a shared guard is granted while no exclusive guard
\* is held; an exclusive guard while no guard at all is held.  (The lock may
\* additionally hold readers back while a writer is parked; that only
\* removes behaviours.)
\* Variants: a shared guard granted next to an exclusive one; a shared guard
\* that excludes other shared guards; an exclusive guard granted next to
\* shared ones.
CanRead_always(w, rs) == TRUE
CanRead_exclusive(w, rs) == w = NoThread /\ rs = {}
CanWrite_ignoreReaders(w, rs) == w = NoThread
CanRead(w, rs) == w = NoThread
CanWrite(w, rs) == w = NoThread /\ rs = {}

VARIABLES
    map,      \* map[c]: the table of cache c, a set of entries
    writer,   \* writer[c]: the thread holding the exclusive guard, or NoThread
    readers,  \* readers[c]: the threads holding a shared guard
    pc,       \* pc[t]: where thread t is
    self,     \* self[t]: the cache of the running call
    spec,     \* spec[t]: the key argument
    asset,    \* asset[t]: the value argument
    f,        \* f[t]: the closure argument of retain
    todo,     \* todo[t]: entries retain has not visited yet
    ret,      \* ret[t]: the result of the running call
    lin,      \* lin[c]: contents of c as of the last completed write
    seen,     \* seen[t]: values lin held for spec[t] since get was called
    lastIns,  \* lastIns[c][k]: value of the last insert on k no write touched since
    cleared,  \* cleared[c]: clear_all completed and no insert started since
    task,     \* task[t]: the loader job of thread t (asset kind and key), if any
    conv,     \* conv[kind][k]: was k converted by from_data since the kind's last
              \* clear_all: "never", "once" or "again" (more than once)
    calls     \* the number of calls the threads have made so far

vars == <<map, writer, readers, pc, self, spec, asset, f, todo, ret,
          lin, seen, lastIns, cleared, task, conv, calls>>

NoCache == "none"
NoKey == AssetSpecNew(0, "", 0)
NoValue == 0

args == <<self, spec, asset, f>>
locks == <<writer, readers>>
ghosts == <<lin, seen, lastIns, cleared>>
loader == <<task, conv, calls>>

\* The asset kinds: "mesh" overrides the hooks with its Cache (retrieve is
\* Cache::get, cache is Cache::insert, clear_all is Cache::clear_all), "level"
\* overrides none.  The Context of a kind is the Cache named after it.
Kinds == Caches
Context(kind) == kind
NoTask == [kind |-> NoCache, key |-> NoKey]
Tasks == [kind : Kinds, key : Keys \cup {NoKey}]
NoConv == [k \in Keys |-> "never"]

TypeOK ==
    /\ map \in [Caches -> SUBSET Entry]
    /\ writer \in [Caches -> Threads \cup {NoThread}]
    /\ readers \in [Caches -> SUBSET Threads]
    /\ self \in [Threads -> Caches \cup {NoCache}]
    /\ spec \in [Threads -> Keys \cup {NoKey}]
    /\ asset \in [Threads -> Values \cup {NoValue}]
    /\ f \in [Threads -> Closures]
    /\ todo \in [Threads -> SUBSET Entry]
    /\ ret \in [Threads -> OptionValues]
    /\ lin \in [Caches -> [Keys -> OptionValues]]
    /\ seen \in [Threads -> SUBSET OptionValues]
    /\ lastIns \in [Caches -> [Keys -> OptionValues]]
    /\ cleared \in [Caches -> BOOLEAN]
    /\ task \in [Threads -> Tasks \cup {NoTask}]
    /\ conv \in [Kinds -> [Keys -> {"never", "once", "again"}]]
    /\ calls \in Nat

\* Variant: a new cache comes with an entry.
CacheDefault_preloaded == {[key |-> AssetSpecNew(1, "obj", 1), val |-> 1]}

\* Cache::new / Default::default: an empty map, an unlocked lock.
CacheDefault == {}

Init ==
    /\ map = [c \in Caches |-> CacheDefault]
    /\ writer = [c \in Caches |-> NoThread]
    /\ readers = [c \in Caches |-> {}]
    /\ pc = [t \in Threads |-> "idle"]
    /\ self = [t \in Threads |-> NoCache]
    /\ spec = [t \in Threads |-> NoKey]
    /\ asset = [t \in Threads |-> NoValue]
    /\ f = [t \in Threads |-> NoClosure]
    /\ todo = [t \in Threads |-> {}]
    /\ ret = [t \in Threads |-> None]
    /\ lin = [c \in Caches |-> EmptyContents]
    /\ seen = [t \in Threads |-> {}]
    /\ lastIns = [c \in Caches |-> EmptyContents]
    /\ cleared = [c \in Caches |-> FALSE]
    /\ task = [t \in Threads |-> NoTask]
    /\ conv = [kind \in Kinds |-> NoConv]
    /\ calls = 0

\* ----------------------------------------------------------- bookkeeping
\* Thread t, idle, makes one more call.
Called(t) ==
    /\ pc[t] = "idle"
    /\ calls < MaxCalls
    /\ calls' = calls + 1
    /\ UNCHANGED <<task, conv>>

\* The call of thread t returns to its caller.
Return(t) ==
    /\ pc' = [pc EXCEPT ![t] = "idle"]
    /\ self' = [self EXCEPT ![t] = NoCache]
    /\ spec' = [spec EXCEPT ![t] = NoKey]
    /\ asset' = [asset EXCEPT ![t] = NoValue]
    /\ f' = [f EXCEPT ![t] = NoClosure]
    /\ ret' = [ret EXCEPT ![t] = None]
    /\ task' = [task EXCEPT ![t] = NoTask]

\* Cache::get returns into Asset::retrieve, which hands the Option to the loader.
ReturnRetrieved(t) ==
    /\ pc' = [pc EXCEPT ![t] = "load_check"]
    /\ self' = [self EXCEPT ![t] = NoCache]
    /\ spec' = [spec EXCEPT ![t] = NoKey]
    /\ UNCHANGED <<asset, f, ret, task>>

\* A write on cache c completes with contents new: every get in flight on c
\* has now also lived through an instant at which its key held new[key].
Commit(c, new, t) ==
    /\ lin' = [lin EXCEPT ![c] = new]
    /\ seen' = [u \in Threads |->
                  IF u # t /\ self[u] = c /\ pc[u] \in {"get_wait", "get_read", "get_unlock"}
                  THEN seen[u] \cup {new[spec[u]]}
                  ELSE seen[u]]

\* ---------------------------------------------------------- Cache::insert
\* insert(spec, asset) is entered: self.map.write() grants the guard.
InsertLock(t, c, k, v) ==
    /\ CanWrite(writer[c], readers[c])
    /\ writer' = [writer EXCEPT ![c] = t]
    /\ pc' = [pc EXCEPT ![t] = "insert_take"]
    /\ self' = [self EXCEPT ![t] = c]
    /\ spec' = [spec EXCEPT ![t] = k]
    /\ asset' = [asset EXCEPT ![t] = v]
    /\ lastIns' = [lastIns EXCEPT ![c][k] = None]
    /\ cleared' = [cleared EXCEPT ![c] = FALSE]
    /\ UNCHANGED <<map, readers, f, todo, ret, lin, seen>>

InsertCall(t, c, k, v) ==
    /\ Called(t)
    /\ InsertLock(t, c, k, v)

\* Variant: the previous value is dropped instead of returned.
InsertTake_forget(t) ==
    /\ pc[t] = "insert_take"
    /\ map' = [map EXCEPT ![self[t]] = HashMapTake(@, spec[t])]
    /\ pc' = [pc EXCEPT ![t] = "insert_put"]
    /\ UNCHANGED <<locks, args, todo, ret, ghosts, loader>>

\* .insert(spec, asset), first half: the previous value leaves the table.
InsertTake(t) ==
    /\ pc[t] = "insert_take"
    /\ ret' = [ret EXCEPT ![t] = HashMapGet(map[self[t]], spec[t])]
    /\ map' = [map EXCEPT ![self[t]] = HashMapTake(@, spec[t])]
    /\ pc' = [pc EXCEPT ![t] = "insert_put"]
    /\ UNCHANGED <<locks, args, todo, ghosts, loader>>

\* .insert(spec, asset), second half: the new pair enters the table.
InsertPut(t) ==
    /\ pc[t] = "insert_put"
    /\ map' = [map EXCEPT ![self[t]] = HashMapPut(@, spec[t], asset[t])]
    /\ pc' = [pc EXCEPT ![t] = "insert_unlock"]
    /\ UNCHANGED <<locks, args, todo, ret, ghosts, loader>>

\* Variant: insert returns with the guard still held.
InsertUnlock_keepGuard(t) ==
    /\ pc[t] = "insert_unlock"
    /\ Commit(self[t], Contents(map[self[t]]), t)
    /\ lastIns' = [lastIns EXCEPT ![self[t]][spec[t]] = Some(asset[t])]
    /\ Return(t)
    /\ UNCHANGED <<map, locks, todo, cleared, conv, calls>>

\* The guard is dropped at the end of the statement; the old value is returned.
InsertUnlock(t) ==
    /\ pc[t] = "insert_unlock"
    /\ writer' = [writer EXCEPT ![self[t]] = NoThread]
    /\ Commit(self[t], Contents(map[self[t]]), t)
    /\ lastIns' = [lastIns EXCEPT ![self[t]][spec[t]] = Some(asset[t])]
    /\ Return(t)
    /\ UNCHANGED <<map, readers, todo, cleared, conv, calls>>

\* ------------------------------------------------------------- Cache::get
\* get(spec) is entered and asks for the read guard.
GetEnter(t, c, k) ==
    /\ pc' = [pc EXCEPT ![t] = "get_wait"]
    /\ self' = [self EXCEPT ![t] = c]
    /\ spec' = [spec EXCEPT ![t] = k]
    /\ seen' = [seen EXCEPT ![t] = {lin[c][k]}]
    /\ UNCHANGED <<map, locks, asset, f, todo, ret, lin, lastIns, cleared>>

GetCall(t, c, k) ==
    /\ Called(t)
    /\ GetEnter(t, c, k)

\* self.map.read()
GetLock(t) ==
    /\ pc[t] = "get_wait"
    /\ CanRead(writer[self[t]], readers[self[t]])
    /\ readers' = [readers EXCEPT ![self[t]] = @ \cup {t}]
    /\ pc' = [pc EXCEPT ![t] = "get_read"]
    /\ UNCHANGED <<map, writer, args, todo, ret, ghosts, loader>>

\* .get(spec).map(Clone::clone)
GetRead(t) ==
    /\ pc[t] = "get_read"
    /\ ret' = [ret EXCEPT ![t] = HashMapGet(map[self[t]], spec[t])]
    /\ pc' = [pc EXCEPT ![t] = "get_unlock"]
    /\ UNCHANGED <<map, locks, args, todo, ghosts, loader>>

\* The guard is dropped; the clone is returned.
GetUnlock(t) ==
    /\ pc[t] = "get_unlock"
    /\ readers' = [readers EXCEPT ![self[t]] = @ \ {t}]
    /\ seen' = [seen EXCEPT ![t] = {}]
    /\ IF task[t] = NoTask THEN Return(t) ELSE ReturnRetrieved(t)
    /\ UNCHANGED <<map, writer, todo, lin, lastIns, cleared, conv, calls>>

\* ---------------------------------------------------------- Cache::retain
\* retain(f) is entered: self.map.write() grants the guard; retain will
\* visit every entry of the table.
RetainLock(t, c, g) ==
    /\ CanWrite(writer[c], readers[c])
    /\ writer' = [writer EXCEPT ![c] = t]
    /\ todo' = [todo EXCEPT ![t] = map[c]]
    /\ pc' = [pc EXCEPT ![t] = "retain_visit"]
    /\ self' = [self EXCEPT ![t] = c]
    /\ f' = [f EXCEPT ![t] = g]
    /\ lastIns' = [lastIns EXCEPT ![c] = EmptyContents]
    /\ UNCHANGED <<map, readers, spec, asset, ret, lin, seen, cleared>>

RetainCall(t, c, g) ==
    /\ Called(t)
    /\ RetainLock(t, c, g)

\* .retain(f): f is called on one more entry, in no particular order.
RetainVisit(t) ==
    /\ pc[t] = "retain_visit"
    /\ \E e \in todo[t] :
         /\ map' = [map EXCEPT ![self[t]] = HashMapRetainOne(@, e, f[t])]
         /\ todo' = [todo EXCEPT ![t] = @ \ {e}]
    /\ UNCHANGED <<locks, pc, args, ret, ghosts, loader>>

RetainDone(t) ==
    /\ pc[t] = "retain_visit"
    /\ todo[t] = {}
    /\ pc' = [pc EXCEPT ![t] = "retain_unlock"]
    /\ UNCHANGED <<map, locks, args, todo, ret, ghosts, loader>>

RetainUnlock(t) ==
    /\ pc[t] = "retain_unlock"
    /\ writer' = [writer EXCEPT ![self[t]] = NoThread]
    /\ Commit(self[t], Contents(map[self[t]]), t)
    /\ Return(t)
    /\ UNCHANGED <<map, readers, todo, lastIns, cleared, conv, calls>>

\* ------------------------------------------------------- Cache::clear_all
\* clear_all() is entered: self.map.write() grants the guard.
ClearAllLock(t, c) ==
    /\ CanWrite(writer[c], readers[c])
    /\ writer' = [writer EXCEPT ![c] = t]
    /\ pc' = [pc EXCEPT ![t] = "clear_drop"]
    /\ self' = [self EXCEPT ![t] = c]
    /\ lastIns' = [lastIns EXCEPT ![c] = EmptyContents]
    /\ UNCHANGED <<map, readers, spec, asset, f, todo, ret, lin, seen, cleared>>

ClearAllCall(t, c) ==
    /\ Called(t)
    /\ ClearAllLock(t, c)

\* Variant: all caches share one table.
ClearAllDrop_allCaches(t) ==
    /\ pc[t] = "clear_drop"
    /\ \E e \in map[self[t]] :
         map' = [c \in Caches |-> HashMapClearOne(map[c], e)]
    /\ UNCHANGED <<locks, pc, args, todo, ret, ghosts, loader>>

\* .clear(): the buckets are emptied one after the other.
ClearAllDrop(t) ==
    /\ pc[t] = "clear_drop"
    /\ \E e \in map[self[t]] :
         map' = [map EXCEPT ![self[t]] = HashMapClearOne(@, e)]
    /\ UNCHANGED <<locks, pc, args, todo, ret, ghosts, loader>>

\* Variant: clear stops before the table is empty.
ClearAllDone_early(t) ==
    /\ pc[t] = "clear_drop"
    /\ pc' = [pc EXCEPT ![t] = "clear_unlock"]
    /\ UNCHANGED <<map, locks, args, todo, ret, ghosts, loader>>

ClearAllDone(t) ==
    /\ pc[t] = "clear_drop"
    /\ map[self[t]] = {}
    /\ pc' = [pc EXCEPT ![t] = "clear_unlock"]
    /\ UNCHANGED <<map, locks, args, todo, ret, ghosts, loader>>

ClearAllUnlock(t) ==
    /\ pc[t] = "clear_unlock"
    /\ writer' = [writer EXCEPT ![self[t]] = NoThread]
    /\ Commit(self[t], Contents(map[self[t]]), t)
    /\ cleared' = [cleared EXCEPT ![self[t]] = TRUE]
    /\ conv' = [conv EXCEPT ![self[t]] = NoConv]
    /\ Return(t)
    /\ UNCHANGED <<map, readers, todo, lastIns, calls>>

\* ---------------------------------------------------------------- loader
\* The loader's control flow for one asset: retrieve, and if that yields
\* nothing, from_data followed by cache.
\* Thread t, idle, is given one more job by the loader.
LoaderCalled(t) ==
    /\ pc[t] = "idle"
    /\ calls < MaxLoads
    /\ calls' = calls + 1

LoadStart(t, kind, k) ==
    /\ LoaderCalled(t)
    /\ pc' = [pc EXCEPT ![t] = "load_retrieve"]
    /\ task' = [task EXCEPT ![t] = [kind |-> kind, key |-> k]]
    /\ UNCHANGED <<map, locks, args, todo, ret, ghosts, conv>>

\* Asset::retrieve, default body: None.
DefaultRetrieve(t) ==
    /\ pc[t] = "load_retrieve"
    /\ task[t].kind = "level"
    /\ ret' = [ret EXCEPT ![t] = None]
    /\ pc' = [pc EXCEPT ![t] = "load_check"]
    /\ UNCHANGED <<map, locks, args, todo, ghosts, loader>>

\* Asset::retrieve overridden: context.get(spec).
MeshRetrieve(t) ==
    /\ pc[t] = "load_retrieve"
    /\ task[t].kind = "mesh"
    /\ GetEnter(t, Context(task[t].kind), task[t].key)
    /\ UNCHANGED loader

\* The loader looks at what retrieve returned.
LoadCheck(t) ==
    /\ pc[t] = "load_check"
    /\ IF ret[t] # None
       THEN Return(t)
       ELSE /\ pc' = [pc EXCEPT ![t] = "load_from_data"]
            /\ UNCHANGED <<args, ret, task>>
    /\ UNCHANGED <<map, locks, todo, ghosts, conv, calls>>

\* Asset::from_data succeeds with some asset.
FromData(t, v) ==
    /\ pc[t] = "load_from_data"
    /\ conv' = [conv EXCEPT ![task[t].kind][task[t].key] =
                   IF @ = "never" THEN "once" ELSE "again"]
    /\ asset' = [asset EXCEPT ![t] = v]
    /\ pc' = [pc EXCEPT ![t] = "load_cache"]
    /\ UNCHANGED <<map, locks, self, spec, f, todo, ret, ghosts, task, calls>>

\* Variant: the loader calls the cache hook after a failed conversion too.
FromDataErr_cached(t) ==
    /\ pc[t] = "load_from_data"
    /\ pc' = [pc EXCEPT ![t] = "load_cache"]
    /\ UNCHANGED <<map, locks, args, todo, ret, ghosts, loader>>

\* Asset::from_data fails: the loader is left with the error, cache is not
\* called.
FromDataErr(t) ==
    /\ pc[t] = "load_from_data"
    /\ pc' = [pc EXCEPT ![t] = "load_failed"]
    /\ UNCHANGED <<map, locks, args, todo, ret, ghosts, loader>>

\* The loader passes the error on to its caller.
LoadFailed(t) ==
    /\ pc[t] = "load_failed"
    /\ Return(t)
    /\ UNCHANGED <<map, locks, todo, ghosts, conv, calls>>

\* Variant: the default hook records the asset in the context.
DefaultCache_store(t) ==
    /\ pc[t] = "load_cache"
    /\ task[t].kind = "level"
    /\ map' = [map EXCEPT ![Context(task[t].kind)] =
                  HashMapPut(HashMapTake(@, task[t].key), task[t].key, asset[t])]
    /\ Return(t)
    /\ UNCHANGED <<locks, todo, ghosts, conv, calls>>

\* Asset::cache, default body: empty.
DefaultCache(t) ==
    /\ pc[t] = "load_cache"
    /\ task[t].kind = "level"
    /\ Return(t)
    /\ UNCHANGED <<map, locks, todo, ghosts, conv, calls>>

\* Asset::cache overridden: context.insert(spec, asset.clone()).
MeshCache(t) ==
    /\ pc[t] = "load_cache"
    /\ task[t].kind = "mesh"
    /\ InsertLock(t, Context(task[t].kind), task[t].key, asset[t])
    /\ UNCHANGED loader

\* The loader calls Asset::clear / Asset::clear_all of a kind with default hooks.
DefaultClearCall(t) ==
    /\ LoaderCalled(t)
    /\ pc' = [pc EXCEPT ![t] = "hook_clear"]
    /\ task' = [task EXCEPT ![t] = [kind |-> "level", key |-> NoKey]]
    /\ UNCHANGED <<map, locks, args, todo, ret, ghosts, conv>>

DefaultClearAllCall(t) ==
    /\ LoaderCalled(t)
    /\ pc' = [pc EXCEPT ![t] = "hook_clear_all"]
    /\ task' = [task EXCEPT ![t] = [kind |-> "level", key |-> NoKey]]
    /\ UNCHANGED <<map, locks, args, todo, ret, ghosts, conv>>

\* Asset::clear, default body: empty.
DefaultClear(t) ==
    /\ pc[t] = "hook_clear"
    /\ Return(t)
    /\ UNCHANGED <<map, locks, todo, ghosts, conv, calls>>

\* Asset::clear_all, default body: empty.
DefaultClearAll(t) ==
    /\ pc[t] = "hook_clear_all"
    /\ Return(t)
    /\ UNCHANGED <<map, locks, todo, ghosts, conv, calls>>

\* Asset::clear_all overridden: context.clear_all().
MeshClearAll(t) ==
    /\ LoaderCalled(t)
    /\ ClearAllLock(t, Context("mesh"))
    /\ UNCHANGED <<task, conv>>

\* Other code stores a value in the cache that is the context of "level".
ContextInsert(t, k, v) ==
    /\ LoaderCalled(t)
    /\ InsertLock(t, Context("level"), k, v)
    /\ UNCHANGED <<task, conv>>

\* ------------------------------------------------------------------ Spec
SharedCaches == {"mesh"}

\* Any number of threads calling the four operations of the caches.
Next ==
    \/ \E t \in Threads, c \in SharedCaches, k \in Keys, v \in Values : InsertCall(t, c, k, v)
    \/ \E t \in Threads : InsertTake(t)
    \/ \E t \in Threads : InsertPut(t)
    \/ \E t \in Threads : InsertUnlock(t)
    \/ \E t \in Threads, c \in SharedCaches, k \in Keys : GetCall(t, c, k)
    \/ \E t \in Threads : GetLock(t)
    \/ \E t \in Threads : GetRead(t)
    \/ \E t \in Threads : GetUnlock(t)
    \/ \E t \in Threads, c \in SharedCaches, g \in Closures : RetainCall(t, c, g)
    \/ \E t \in Threads : RetainVisit(t)
    \/ \E t \in Threads : RetainDone(t)
    \/ \E t \in Threads : RetainUnlock(t)
    \/ \E t \in Threads, c \in SharedCaches : ClearAllCall(t, c)
    \/ \E t \in Threads : ClearAllDrop(t)
    \/ \E t \in Threads : ClearAllDone(t)
    \/ \E t \in Threads : ClearAllUnlock(t)

Spec == Init /\ [][Next]_vars

\* Loader threads loading assets of the kind whose hooks use its Cache.
MeshLoaderNext ==
    \/ \E t \in Threads, k \in Keys : LoadStart(t, "mesh", k)
    \/ \E t \in Threads : MeshRetrieve(t)
    \/ \E t \in Threads : LoadCheck(t)
    \/ \E t \in Threads, v \in Values : FromData(t, v)
    \/ \E t \in Threads : FromDataErr(t)
    \/ \E t \in Threads : LoadFailed(t)
    \/ \E t \in Threads : MeshCache(t)
    \/ \E t \in Threads : MeshClearAll(t)
    \/ \E t \in Threads : InsertTake(t)
    \/ \E t \in Threads : InsertPut(t)
    \/ \E t \in Threads : InsertUnlock(t)
    \/ \E t \in Threads : GetLock(t)
    \/ \E t \in Threads : GetRead(t)
    \/ \E t \in Threads : GetUnlock(t)
    \/ \E t \in Threads : ClearAllDrop(t)
    \/ \E t \in Threads : ClearAllDone(t)
    \/ \E t \in Threads : ClearAllUnlock(t)

MeshLoaderSpec == Init /\ [][MeshLoaderNext]_vars

\* Loader threads loading assets of the kind with default hooks, whose
\* context is a cache that other code fills.
DefaultLoaderNext ==
    \/ \E t \in Threads, k \in Keys : LoadStart(t, "level", k)
    \/ \E t \in Threads : DefaultRetrieve(t)
    \/ \E t \in Threads : LoadCheck(t)
    \/ \E t \in Threads, v \in Values : FromData(t, v)
    \/ \E t \in Threads : FromDataErr(t)
    \/ \E t \in Threads : LoadFailed(t)
    \/ \E t \in Threads : DefaultCache(t)
    \/ \E t \in Threads : DefaultClearCall(t)
    \/ \E t \in Threads : DefaultClearAllCall(t)
    \/ \E t \in Threads : DefaultClear(t)
    \/ \E t \in Threads : DefaultClearAll(t)
    \/ \E t \in Threads, k \in Keys, v \in Values : ContextInsert(t, k, v)
    \/ \E t \in Threads : InsertTake(t)
    \/ \E t \in Threads : InsertPut(t)
    \/ \E t \in Threads : InsertUnlock(t)

DefaultLoaderSpec == Init /\ [][DefaultLoaderNext]_vars

\* ------------------------------------------------------------------ keys
\* Threads building keys from all field values and using them on one cache:
\* AssetSpec::new, then insert or get with nobody else inside the cache.
AllKeys == {AssetSpecNew(n, e, s) : n \in KeyNames, e \in KeyExts, s \in KeyStores}

\* The claims about keys concern pairs and triples of keys: two threads, and
\* the keys already stored, provide them.
KeyThreads == {1, 2}

KeyNew(t, name, ext, store) ==
    /\ LoaderCalled(t)
    /\ UNCHANGED <<task, conv>>
    /\ pc' = [pc EXCEPT ![t] = "key_held"]
    /\ spec' = [spec EXCEPT ![t] = AssetSpecNew(name, ext, store)]
    /\ UNCHANGED <<map, locks, self, asset, f, todo, ret, ghosts>>

\* insert(spec, asset), start to end; each thread stores an asset of its own.
KeyInsert(t, v) ==
    /\ pc[t] = "key_held"
    /\ v = t
    /\ CanWrite(writer["mesh"], readers["mesh"])
    /\ map' = [map EXCEPT !["mesh"] = HashMapPut(HashMapTake(@, spec[t]), spec[t], v)]
    /\ asset' = [asset EXCEPT ![t] = v]
    /\ pc' = [pc EXCEPT ![t] = "key_stored"]
    /\ UNCHANGED <<locks, self, spec, f, todo, ret, ghosts, loader>>

\* get(spec), start to end.
KeyGet(t) ==
    /\ pc[t] = "key_held"
    /\ CanRead(writer["mesh"], readers["mesh"])
    /\ ret' = [ret EXCEPT ![t] = HashMapGet(map["mesh"], spec[t])]
    /\ pc' = [pc EXCEPT ![t] = "key_looked"]
    /\ UNCHANGED <<map, locks, args, todo, ghosts, loader>>

\* The key handed to insert is gone; the thread builds another one.
KeyDrop(t) ==
    /\ pc[t] = "key_stored"
    /\ Return(t)
    /\ UNCHANGED <<map, locks, todo, ghosts, conv, calls>>

KeyNext ==
    \/ \E t \in KeyThreads, n \in KeyNames, e \in KeyExts, s \in KeyStores : KeyNew(t, n, e, s)
    \/ \E t \in KeyThreads, v \in Values : KeyInsert(t, v)
    \/ \E t \in KeyThreads : KeyGet(t)
    \/ \E t \in KeyThreads : KeyDrop(t)

KeySpec == Init /\ [][KeyNext]_vars

\* ---------------------------------------------------------------- copies
\* Callers that keep the Option<T> get returned and change the T in it.
CopyInsert(t, k, v) ==
    /\ LoaderCalled(t)
    /\ UNCHANGED <<task, conv>>
    /\ InsertLock(t, "mesh", k, v)

CopyGet(t, k) ==
    /\ LoaderCalled(t)
    /\ UNCHANGED <<task, conv>>
    /\ GetEnter(t, "mesh", k)

\* The guard is dropped; the caller owns the clone.
GetReturn(t) ==
    /\ pc[t] = "get_unlock"
    /\ readers' = [readers EXCEPT ![self[t]] = @ \ {t}]
    /\ seen' = [seen EXCEPT ![t] = {}]
    /\ pc' = [pc EXCEPT ![t] = "copy_held"]
    /\ UNCHANGED <<map, writer, args, todo, ret, lin, lastIns, cleared, loader>>

\* Variant: the caller was handed the stored value itself.
CopyMutate_alias(t) ==
    /\ pc[t] = "copy_held"
    /\ ret[t] # None
    /\ ret' = [ret EXCEPT ![t] = Some(Bump(ret[t][1]))]
    /\ map' = [map EXCEPT ![self[t]] =
                 {IF e.key = spec[t] THEN [e EXCEPT !.val = Bump(ret[t][1])] ELSE e : e \in @}]
    /\ pc' = [pc EXCEPT ![t] = "copy_used"]
    /\ UNCHANGED <<locks, args, todo, ghosts, loader>>

\* The caller changes the T it got from Clone::clone.
CopyMutate(t) ==
    /\ pc[t] = "copy_held"
    /\ ret[t] # None
    /\ ret' = [ret EXCEPT ![t] = Some(Bump(ret[t][1]))]
    /\ pc' = [pc EXCEPT ![t] = "copy_used"]
    /\ UNCHANGED <<map, locks, args, todo, ghosts, loader>>

\* The caller drops its Option<T>.
CopyDrop(t) ==
    /\ pc[t] \in {"copy_held", "copy_used"}
    /\ Return(t)
    /\ UNCHANGED <<map, locks, todo, ghosts, conv, calls>>

CopyNext ==
    \/ \E t \in Threads, k \in Keys, v \in Values : CopyInsert(t, k, v)
    \/ \E t \in Threads : InsertTake(t)
    \/ \E t \in Threads : InsertPut(t)
    \/ \E t \in Threads : InsertUnlock(t)
    \/ \E t \in Threads, k \in Keys : CopyGet(t, k)
    \/ \E t \in Threads : GetLock(t)
    \/ \E t \in Threads : GetRead(t)
    \/ \E t \in Threads : GetReturn(t)
    \/ \E t \in Threads : CopyMutate(t)
    \/ \E t \in Threads : CopyDrop(t)

CopySpec == Init /\ [][CopyNext]_vars

\* ----------------------------------------------------------------- waits
\* The four operations with the wait for the lock as a state of its own: a
\* caller sits in self.map.write() or self.map.read() until the lock is
\* granted.
WaitCall(t, at) ==
    /\ LoaderCalled(t)
    /\ pc' = [pc EXCEPT ![t] = at]
    /\ self' = [self EXCEPT ![t] = "mesh"]
    /\ UNCHANGED <<map, locks, todo, ret, ghosts, task, conv>>

WaitInsert(t, k, v) ==
    /\ WaitCall(t, "insert_wait")
    /\ spec' = [spec EXCEPT ![t] = k]
    /\ asset' = [asset EXCEPT ![t] = v]
    /\ UNCHANGED f

WaitRetain(t, g) ==
    /\ WaitCall(t, "retain_wait")
    /\ f' = [f EXCEPT ![t] = g]
    /\ UNCHANGED <<spec, asset>>

WaitClearAll(t) ==
    /\ WaitCall(t, "clear_wait")
    /\ UNCHANGED <<spec, asset, f>>

InsertAcquire(t) ==
    /\ pc[t] = "insert_wait"
    /\ InsertLock(t, self[t], spec[t], asset[t])
    /\ UNCHANGED loader

RetainAcquire(t) ==
    /\ pc[t] = "retain_wait"
    /\ RetainLock(t, self[t], f[t])
    /\ UNCHANGED loader

ClearAllAcquire(t) ==
    /\ pc[t] = "clear_wait"
    /\ ClearAllLock(t, self[t])
    /\ UNCHANGED loader

\* Thread t is granted the lock it waits for.
Acquire(t) ==
    \/ InsertAcquire(t)
    \/ GetLock(t)
    \/ RetainAcquire(t)
    \/ ClearAllAcquire(t)

\* Thread t, holding its guard, takes the next step of its operation.
Proceed(t) ==
    \/ InsertTake(t)
    \/ InsertPut(t)
    \/ InsertUnlock(t)
    \/ GetRead(t)
    \/ GetUnlock(t)
    \/ RetainVisit(t)
    \/ RetainDone(t)
    \/ RetainUnlock(t)
    \/ ClearAllDrop(t)
    \/ ClearAllDone(t)
    \/ ClearAllUnlock(t)

\* Whether an operation completes depends on the lock and on the number of
\* entries retain and clear_all go through, not on which keys and values
\* they are: two keys, one value and the closures that keep all or nothing.
WaitKeys == {k \in Keys : k.name \in {1, 2}}
WaitValues == {1}
WaitClosures == {g \in Closures : ~g.mutate /\ g.keys \in {{}, WaitKeys}}

WaitNext ==
    \/ \E t \in Threads, k \in WaitKeys, v \in WaitValues : WaitInsert(t, k, v)
    \/ \E t \in Threads, k \in WaitKeys : CopyGet(t, k)
    \/ \E t \in Threads, g \in WaitClosures : WaitRetain(t, g)
    \/ \E t \in Threads : WaitClearAll(t)
    \/ \E t \in Threads : Acquire(t)
    \/ \E t \in Threads : Proceed(t)

\* Fair scheduling: a thread that can take its next step takes it.  Fair
\* lock: a thread that the lock could be granted to again and again is
\* granted it.
WaitFair == \A t \in Threads : WF_vars(Proceed(t)) /\ SF_vars(Acquire(t))

WaitSpec == Init /\ [][WaitNext]_vars /\ WaitFair

\* --------------------------------------------------------- two caches
\* Threads using the caches of two asset categories side by side.  Which
\* cache a step touches does not depend on the keys and values either.
AnyInsert(t, c, k, v) ==
    /\ LoaderCalled(t)
    /\ UNCHANGED <<task, conv>>
    /\ InsertLock(t, c, k, v)

AnyGet(t, c, k) ==
    /\ LoaderCalled(t)
    /\ UNCHANGED <<task, conv>>
    /\ GetEnter(t, c, k)

AnyRetain(t, c, g) ==
    /\ LoaderCalled(t)
    /\ UNCHANGED <<task, conv>>
    /\ RetainLock(t, c, g)

AnyClearAll(t, c) ==
    /\ LoaderCalled(t)
    /\ UNCHANGED <<task, conv>>
    /\ ClearAllLock(t, c)

CachesNext ==
    \/ \E t \in Threads, c \in Caches, k \in WaitKeys, v \in WaitValues : AnyInsert(t, c, k, v)
    \/ \E t \in Threads, c \in Caches, k \in WaitKeys : AnyGet(t, c, k)
    \/ \E t \in Threads, c \in Caches, g \in WaitClosures : AnyRetain(t, c, g)
    \/ \E t \in Threads, c \in Caches : AnyClearAll(t, c)
    \/ \E t \in Threads : GetLock(t)
    \/ \E t \in Threads : Proceed(t)

CachesSpec == Init /\ [][CachesNext]_vars

\* ------------------------------------------------------ nested calls
\* retain with a closure that captured a cache and calls one of its
\* operations each time it is asked about an entry: g.cache is the cache the
\* closure calls, g.op the operation.
NestedOps == {"get", "insert", "retain", "clear_all"}
NestedClosures ==
    {[keys |-> g.keys, mutate |-> g.mutate, cache |-> c, op |-> o] :
        g \in WaitClosures, c \in Caches, o \in NestedOps}

\* What the nested operation of closure g does to table m: insert(k, v) of a
\* fixed pair, retain(|_, _| false), clear_all(); get changes nothing.
NestedEffect(g, m) ==
    CASE g.op = "get" -> m
      [] g.op = "insert" ->
            LET k == AssetSpecNew(1, "obj", 1)
            IN  HashMapPut(HashMapTake(m, k), k, 1)
      [] OTHER -> {}

NestRetain(t, c, g) ==
    /\ LoaderCalled(t)
    /\ UNCHANGED <<task, conv>>
    /\ RetainLock(t, c, g)

\* f(&key, &mut value) is called on the next entry and calls into g.cache:
\* self.map.read() for get, self.map.write() for the other three.
NestCall(t) ==
    /\ pc[t] = "retain_visit"
    /\ todo[t] # {}
    /\ pc' = [pc EXCEPT ![t] = "nested_wait"]
    /\ UNCHANGED <<map, locks, args, todo, ret, ghosts, loader>>

\* Variant: a lock that lets the thread holding the write guard in again.
NestAcquire_reentrant(t) ==
    /\ pc[t] = "nested_wait"
    /\ writer[f[t].cache] \in {NoThread, t}
    /\ pc' = [pc EXCEPT ![t] = "nested_held"]
    /\ UNCHANGED <<map, locks, args, todo, ret, ghosts, loader>>

\* The nested call is granted its guard.
NestAcquire(t) ==
    /\ pc[t] = "nested_wait"
    /\ IF f[t].op = "get"
       THEN /\ CanRead(writer[f[t].cache], readers[f[t].cache])
            /\ readers' = [readers EXCEPT ![f[t].cache] = @ \cup {t}]
            /\ UNCHANGED writer
       ELSE /\ CanWrite(writer[f[t].cache], readers[f[t].cache])
            /\ writer' = [writer EXCEPT ![f[t].cache] = t]
            /\ UNCHANGED readers
    /\ pc' = [pc EXCEPT ![t] = "nested_held"]
    /\ UNCHANGED <<map, args, todo, ret, ghosts, loader>>

\* The nested call does its work, drops its guard and returns into f.
NestReturn(t) ==
    /\ pc[t] = "nested_held"
    /\ map' = [map EXCEPT ![f[t].cache] = NestedEffect(f[t], @)]
    /\ IF f[t].op = "get"
       THEN /\ readers' = [readers EXCEPT ![f[t].cache] = @ \ {t}]
            /\ UNCHANGED <<writer, lin, seen>>
       ELSE /\ writer' = [writer EXCEPT ![f[t].cache] = NoThread]
            /\ Commit(f[t].cache, Contents(NestedEffect(f[t], map[f[t].cache])), t)
            /\ UNCHANGED readers
    /\ pc' = [pc EXCEPT ![t] = "nested_done"]
    /\ UNCHANGED <<args, todo, ret, lastIns, cleared, loader>>

\* f answers; retain keeps or erases the entry.
NestAnswer(t) ==
    /\ pc[t] = "nested_done"
    /\ \E e \in todo[t] :
         /\ map' = [map EXCEPT ![self[t]] = HashMapRetainOne(@, e, f[t])]
         /\ todo' = [todo EXCEPT ![t] = @ \ {e}]
    /\ pc' = [pc EXCEPT ![t] = "retain_visit"]
    /\ UNCHANGED <<locks, args, ret, ghosts, loader>>

NestedNext ==
    \/ \E t \in Threads, c \in Caches, k \in WaitKeys, v \in WaitValues : AnyInsert(t, c, k, v)
    \/ \E t \in Threads : InsertTake(t)
    \/ \E t \in Threads : InsertPut(t)
    \/ \E t \in Threads : InsertUnlock(t)
    \/ \E t \in Threads, c \in Caches, k \in WaitKeys : AnyGet(t, c, k)
    \/ \E t \in Threads : GetLock(t)
    \/ \E t \in Threads : GetRead(t)
    \/ \E t \in Threads : GetUnlock(t)
    \/ \E t \in Threads, c \in Caches, g \in NestedClosures : NestRetain(t, c, g)
    \/ \E t \in Threads : NestCall(t)
    \/ \E t \in Threads : NestAcquire(t)
    \/ \E t \in Threads : NestReturn(t)
    \/ \E t \in Threads : NestAnswer(t)
    \/ \E t \in Threads : RetainDone(t)
    \/ \E t \in Threads : RetainUnlock(t)

NestedSpec == Init /\ [][NestedNext]_vars

\* ================================================================ claims
WritePcs == {"insert_take", "insert_put", "insert_unlock",
             "retain_visit", "retain_unlock", "clear_drop", "clear_unlock"}
ReadPcs == {"get_read", "get_unlock"}
HoldsWrite(t) == pc[t] \in WritePcs
HoldsRead(t) == pc[t] \in ReadPcs

\* C1 - Round trip: a get(k) that reads the cache while the last completed
\* insert on k, insert(k, v), has not been followed by an insert on k, a
\* retain or a clear_all, returns Some(v).
C1_RoundTrip ==
    \A t \in Threads :
        (pc[t] = "get_unlock" /\ lastIns[self[t]][spec[t]] # None)
            => ret[t] = lastIns[self[t]][spec[t]]

\* A get has returned the value of an earlier insert while another key of the
\* same cache holds a different value.
C1_Witness ==
    \E t \in Threads :
        /\ pc[t] = "get_unlock"
        /\ lastIns[self[t]][spec[t]] # None
        /\ ret[t] = lastIns[self[t]][spec[t]]
        /\ \E k \in Keys : lin[self[t]][k] \notin {None, ret[t]}

\* C2 - Overwrite: when insert(k, v) has run, its result is Some(old) if k was
\* mapped to old before the call and None if k was absent, and k is now
\* mapped to v.
C2_Overwrite ==
    \A t \in Threads :
        pc[t] = "insert_unlock"
            => /\ ret[t] = lin[self[t]][spec[t]]
               /\ HashMapGet(map[self[t]], spec[t]) = Some(asset[t])

\* insert(k, v2) over an existing v1 # v2 is about to return Some(v1).
C2_Witness ==
    \E t \in Threads :
        /\ pc[t] = "insert_unlock"
        /\ ret[t] # None
        /\ ret[t] # Some(asset[t])
        /\ HashMapGet(map[self[t]], spec[t]) = Some(asset[t])

\* What retain(g) is to leave of the contents old.
Retained(old, g) ==
    [k \in Keys |->
        IF old[k] # None /\ ClosureKeeps(g, k, old[k][1])
        THEN Some(ClosureValue(g, k, old[k][1]))
        ELSE None]

\* C3 - Retain: when retain(p) has visited the table, the cache holds exactly
\* the entries of the contents before the call for which p answered true
\* (with the value p left in them); every other key is absent, none is added.
C3_Retain ==
    \A t \in Threads :
        pc[t] = "retain_unlock"
            => Contents(map[self[t]]) = Retained(lin[self[t]], f[t])

\* retain(|k, _| k == k1) on a cache holding every key has left exactly k1.
C3_Witness ==
    \E t \in Threads, k1 \in Keys :
        /\ pc[t] = "retain_unlock"
        /\ f[t] = [keys |-> {k1}, mutate |-> FALSE]
        /\ \A k \in Keys : lin[self[t]][k] # None
        /\ map[self[t]] = {[key |-> k1, val |-> lin[self[t]][k1][1]]}

\* C4 - ClearAll: when clear_all has run the table is empty, and every get
\* that reads the cache after a clear_all completed and before the next
\* insert starts returns None.
C4_ClearAll ==
    /\ \A t \in Threads : pc[t] = "clear_unlock" => map[self[t]] = {}
    /\ \A t \in Threads :
          (pc[t] = "get_unlock" /\ cleared[self[t]]) => ret[t] = None
    /\ \A c \in Caches : (cleared[c] /\ writer[c] = NoThread) => map[c] = {}

\* clear_all has emptied a cache that held every key.
C4_Witness ==
    \E t \in Threads :
        /\ pc[t] = "clear_unlock"
        /\ \A k \in Keys : lin[self[t]][k] # None
        /\ map[self[t]] = {}

\* C5 - In every reachable state every cache has at most one entry per key.
C5_OneEntryPerKey ==
    \A c \in Caches, k \in Keys :
        Cardinality({e \in map[c] : e.key = k}) <= 1

\* An insert on an existing key has run while another thread waits for the
\* same cache.
C5_Witness ==
    \E t \in Threads, u \in Threads :
        /\ pc[t] = "insert_unlock"
        /\ ret[t] # None
        /\ u # t
        /\ self[u] = self[t]
        /\ pc[u] = "get_wait"

\* C6 - Writer exclusivity: the value a get returns is the value its key had
\* in the cache at some instant between the call of the get and its return.
C6_Linearizable ==
    \A t \in Threads : pc[t] = "get_unlock" => ret[t] \in seen[t]

\* A get that ran while an insert replaced v1 by v2 under its key.
C6_Witness ==
    \E t \in Threads :
        /\ pc[t] = "get_unlock"
        /\ Cardinality(seen[t]) = 2
        /\ None \notin seen[t]
        /\ ret[t] \in seen[t]

\* C7 - Lock discipline: while a thread is inside insert, retain or clear_all
\* with the write lock, no other thread holds the read or the write lock of
\* that cache; a thread inside get holds the read lock only.
C7_LockDiscipline ==
    /\ \A t \in Threads :
          HoldsWrite(t) =>
              /\ writer[self[t]] = t
              /\ \A u \in Threads \ {t} :
                    self[u] = self[t] => ~HoldsWrite(u) /\ ~HoldsRead(u)
    /\ \A t \in Threads :
          HoldsRead(t) => t \in readers[self[t]] /\ writer[self[t]] # t
    /\ \A c \in Caches : writer[c] # NoThread => readers[c] = {}

\* A writer is inside the cache, rewriting it, while a get waits for it.
C7_Witness ==
    \E t \in Threads, u \in Threads :
        /\ HoldsWrite(t)
        /\ map[self[t]] # {}
        /\ u # t
        /\ self[u] = self[t]
        /\ pc[u] = "get_wait"

\* C8 - Concurrent readers: while no writer holds the lock of a cache (a
\* waiting writer is a thread whose call has not been granted), a get waiting
\* for its read lock can take it whatever the number of gets that hold it,
\* and every get returns what the cache stores for its key.
C8_ConcurrentReaders ==
    /\ \A t \in Threads :
          (pc[t] = "get_wait" /\ writer[self[t]] = NoThread)
              => ENABLED GetLock(t)
    /\ \A t \in Threads :
          pc[t] = "get_unlock" => ret[t] = lin[self[t]][spec[t]]

\* Every thread holds the read lock of the same cache at once and has read a
\* stored value.
C8_Witness ==
    /\ \A t \in Threads : pc[t] = "get_unlock" /\ ret[t] # None
    /\ \E c \in Caches : readers[c] = Threads

\* C9 - No double import: with retrieve = Cache::get and cache = Cache::insert
\* no key is converted by from_data more than once between two clear_all.
C9_NoDoubleImport ==
    \A k \in Keys : conv["mesh"][k] # "again"

\* The step of thread t is the body of a default hook.
DefaultHookStep(t) ==
    /\ task[t].kind = "level"
    /\ pc[t] \in {"load_retrieve", "load_cache", "hook_clear", "hook_clear_all"}
    /\ pc'[t] # pc[t]

\* C10 - Default hooks: retrieve returns None whatever the context holds and
\* whatever hooks ran before, the hooks leave the context unchanged, and the
\* loader goes on to from_data on every load.
C10_DefaultHooks ==
    /\ [](\A t \in Threads :
            (pc[t] = "load_check" /\ task[t].kind = "level") => ret[t] = None)
    /\ [][\A t \in Threads :
            DefaultHookStep(t) =>
                UNCHANGED <<map[Context("level")], writer[Context("level")],
                            readers[Context("level")]>>]_vars
    /\ [][\A t \in Threads :
            (pc[t] = "load_check" /\ task[t].kind = "level" /\ pc'[t] # pc[t])
                => pc'[t] = "load_from_data"]_vars

\* retrieve has returned None for a key the context holds and that was
\* converted and handed to the cache hook before.
C10_Witness ==
    \E t \in Threads :
        /\ pc[t] = "load_check"
        /\ task[t].kind = "level"
        /\ ret[t] = None
        /\ lin[Context("level")][task[t].key] # None
        /\ conv["level"][task[t].key] # "never"

\* The keys in use: held by a thread or stored in a cache.
\* The keys threads hold and the keys of the stored entries.
KeysInUse ==
    {spec[t] : t \in {u \in Threads : pc[u] \in {"key_held", "key_stored", "key_looked"}}}
        \cup {e.key : e \in UNION {map[c] : c \in Caches}}
Fields(a) == <<a.ext, a.name, a.store>>

\* What equality, hash and the table agree on, for the keys in use.
KeysAgree ==
    /\ \A a \in KeysInUse, b \in KeysInUse :
          /\ AssetSpecEq(a, b) <=> Fields(a) = Fields(b)
          /\ AssetSpecEq(a, b) => AssetSpecHash(a) = AssetSpecHash(b)
    /\ \A t \in Threads :
          pc[t] = "key_stored" =>
              \E e \in map["mesh"] : Fields(e.key) = Fields(spec[t])
    /\ \A d \in map["mesh"], e \in map["mesh"] :
          Fields(d.key) = Fields(e.key) => d = e

\* C11 - Two keys are equal exactly when extension, name and store are
\* pairwise equal, and equal keys have equal hashes; so a key finds an entry
\* exactly when one was stored under the same three fields, and keys that
\* differ in a field have entries of their own.
C11_KeyEquality ==
    /\ []KeysAgree
    /\ [][\A t \in Threads :
            (pc[t] = "key_held" /\ pc'[t] = "key_looked") =>
                (ret'[t] # None <=>
                    \E e \in map["mesh"] : Fields(e.key) = Fields(spec[t]))]_vars

\* Two keys that differ in the store only have been stored with different
\* values, both entries are there, and a third thread has found one of them.
C11_Witness ==
    \E t \in Threads, u \in Threads :
        /\ pc[t] = "key_stored"
        /\ pc[u] = "key_looked"
        /\ ret[u] # None
        /\ \E d \in map["mesh"], e \in map["mesh"] :
              /\ d.key.ext = e.key.ext
              /\ d.key.name = e.key.name
              /\ d.key.store # e.key.store
              /\ d.val # e.val
              /\ Fields(d.key) = Fields(spec[u])
              /\ ret[u] = Some(d.val)

\* a is before b, field after field in the order the fields are declared.
LexLess(a, b) ==
    \/ StrCmp(StrBytes(a.ext), StrBytes(b.ext)) = "Less"
    \/ /\ a.ext = b.ext
       /\ \/ StrCmp(a.name, b.name) = "Less"
          \/ a.name = b.name /\ a.store < b.store

\* C12 - The order on keys is total, compares extension, then name, then
\* store, and says Equal exactly for equal keys; the keys are built by
\* new(name, ext, store), whose arguments come in another order.
C12_KeyOrder ==
    \A a \in KeysInUse, b \in KeysInUse :
        /\ AssetSpecCmp(a, b) \in {"Less", "Equal", "Greater"}
        /\ AssetSpecCmp(a, b) = "Less" <=> LexLess(a, b)
        /\ AssetSpecCmp(a, b) = "Greater" <=> LexLess(b, a)
        /\ AssetSpecCmp(a, b) = "Equal" <=> AssetSpecEq(a, b)
        /\ AssetSpecCmp(a, b) = "Less" <=> AssetSpecCmp(b, a) = "Greater"
        /\ \A c \in KeysInUse :
              AssetSpecCmp(a, b) = "Less" /\ AssetSpecCmp(b, c) = "Less"
                  => AssetSpecCmp(a, c) = "Less"

\* Three keys in use in a row, the first before the second by its extension
\* although its name is the later one, and the second before the third by the
\* store alone.
C12_Witness ==
    \E a \in KeysInUse, b \in KeysInUse, c \in KeysInUse :
        /\ AssetSpecCmp(a, b) = "Less"
        /\ AssetSpecCmp(b, c) = "Less"
        /\ StrCmp(a.name, b.name) = "Greater"
        /\ b.ext = c.ext /\ b.name = c.name

\* The steps thread t takes from the call of a get until it lets go of the
\* value it was returned.
GetPcs == {"get_wait", "get_read", "get_unlock", "copy_held", "copy_used"}
GetOrCopyStep(t) == pc[t] \in GetPcs /\ pc'[t] # pc[t]

\* C13 - get never changes the cache, whether its key is present or absent,
\* and what it returns is a copy: no step of a get, and nothing the caller
\* does to the returned value, changes the table, so the table stays what the
\* writes have made it and later gets return that.
C13_GetIsPure ==
    /\ [][\A t \in Threads : GetOrCopyStep(t) => map' = map /\ lin' = lin]_vars
    /\ [](\A c \in Caches : writer[c] = NoThread => Contents(map[c]) = lin[c])
    /\ [](\A t \in Threads : pc[t] = "get_unlock" => ret[t] \in seen[t])

\* One caller has changed the copy it was returned, and a later get of the
\* same key by another caller has read the stored value, not the changed one.
C13_Witness ==
    \E t \in Threads, u \in Threads :
        /\ pc[t] = "copy_used"
        /\ pc[u] = "get_unlock"
        /\ spec[u] = spec[t]
        /\ ret[u] # None
        /\ ret[u] # ret[t]
        /\ ret[u] = HashMapGet(map["mesh"], spec[u])

WaitPcs == {"insert_wait", "get_wait", "retain_wait", "clear_wait"}

\* C14 - Every operation completes: with fair scheduling and a fair lock a
\* thread that has called insert, get, retain or clear_all is granted its
\* lock, and a thread inside an operation returns, without its guard; what
\* an operation returns is a value or nothing, never an error; and as long as
\* a thread is inside an operation some thread can take a step.
C14_Completes ==
    /\ \A t \in Threads : (pc[t] \in WaitPcs) ~> (HoldsWrite(t) \/ HoldsRead(t))
    /\ \A t \in Threads : (pc[t] # "idle") ~> (pc[t] = "idle")
    /\ [](\A t \in Threads :
            /\ ret[t] \in OptionValues
            /\ pc[t] = "idle" => \A c \in Caches : writer[c] # t /\ t \notin readers[c])
    /\ []((\E t \in Threads : pc[t] # "idle")
            => \E t \in Threads : ENABLED (Acquire(t) \/ Proceed(t)))

\* A thread waits in insert for the lock that another one holds for a retain
\* with entries still to visit.
C14_Witness ==
    \E t \in Threads, u \in Threads :
        /\ pc[t] = "insert_wait"
        /\ pc[u] = "retain_visit"
        /\ writer["mesh"] = u
        /\ todo[u] # {}

\* What belongs to cache c: its table and its lock.
CacheState(c) == <<map[c], writer[c], readers[c]>>
\* Thread t is inside an operation on cache c before or after the step.
Inside(t, c) == self[t] = c \/ self'[t] = c

\* C15 - Cache instances are independent: a step changes the table and the
\* lock of one cache at most, the cache of the operation a thread is in, and
\* no cache's lock holds up an operation on another cache: while one cache
\* is locked for writing, an insert can enter and a waiting get can go on in
\* every cache that is not locked.
C15_Independent ==
    /\ [][\A c \in Caches :
            CacheState(c)' # CacheState(c) =>
                /\ \E t \in Threads : Inside(t, c)
                /\ \A d \in Caches \ {c} : CacheState(d)' = CacheState(d)]_vars
    /\ [](\A c \in Caches, t \in Threads :
            (writer[c] = NoThread /\ readers[c] = {}) =>
                /\ (pc[t] = "idle" /\ calls < MaxLoads) =>
                      \A k \in Keys, v \in Values : ENABLED AnyInsert(t, c, k, v)
                /\ (pc[t] = "get_wait" /\ self[t] = c) => ENABLED GetLock(t))

\* One thread is in the middle of a clear_all on one cache, the other
\* cache has an entry and is unlocked, and a get waits to read it.
C15_Witness ==
    \E c \in Caches, d \in Caches, t \in Threads, u \in Threads :
        /\ c # d
        /\ writer[c] = t
        /\ pc[t] = "clear_drop"
        /\ map[d] # {}
        /\ writer[d] = NoThread
        /\ pc[u] = "get_wait"
        /\ self[u] = d

\* from_data of thread t fails in this step.
FailStep(t) == pc[t] = "load_from_data" /\ pc'[t] = "load_failed"

\* C16 - A failed conversion leaves no trace: the step in which from_data
\* fails changes neither the cache of the context nor its lock, the loader
\* then returns without calling the cache hook, and the hook is called only
\* with the asset of a conversion that succeeded; a retrieve of the key
\* therefore finds what it found before.
C16_FailureLeavesNoTrace ==
    /\ [][\A t \in Threads : FailStep(t) => UNCHANGED <<map, locks, lin>>]_vars
    /\ [][\A t \in Threads :
            (pc[t] = "load_failed" /\ pc'[t] # pc[t]) =>
                pc'[t] = "idle" /\ UNCHANGED <<map, locks, lin>>]_vars
    /\ [][\A t \in Threads :
            (pc'[t] = "load_cache" /\ pc[t] # "load_cache") =>
                /\ pc[t] = "load_from_data"
                /\ asset'[t] \in Values
                /\ conv'[task[t].kind][task[t].key] # "never"]_vars
    /\ [](\A t \in Threads :
            pc[t] \in {"insert_take", "insert_put", "insert_unlock"} => asset[t] \in Values)

\* from_data has failed for a key that is not in the cache, and a retrieve of
\* the same key by another loader has returned None.
C16_Witness ==
    \E t \in Threads, u \in Threads :
        /\ pc[t] = "load_failed"
        /\ HashMapGet(map["mesh"], task[t].key) = None
        /\ pc[u] = "load_check"
        /\ task[u].key = task[t].key
        /\ ret[u] = None

\* C17 - A new cache is empty: every cache starts with no entry and no
\* guard, only an insert on it gives it its first entry, and until then
\* every get on it returns None.
C17_NewIsEmpty ==
    /\ \A c \in Caches : map[c] = {} /\ writer[c] = NoThread /\ readers[c] = {}
    /\ [][\A c \in Caches :
            (map[c] = {} /\ map'[c] # {}) =>
                \E t \in Threads : pc[t] = "insert_put" /\ self[t] = c]_vars
    /\ [](\A t \in Threads :
            (pc[t] = "get_unlock" /\ map[self[t]] = {}) => ret[t] = None)

\* The second call ever is a get on a cache nothing was inserted in, after
\* an insert on the other cache; it has returned None.
C17_Witness ==
    \E t \in Threads, d \in Caches :
        /\ pc[t] = "get_unlock"
        /\ ret[t] = None
        /\ self[t] # d
        /\ map[d] # {}
        /\ calls = 2

\* C18 - A retain whose predicate rewrites the values in place: when it has
\* visited the table, every entry it kept is stored under its old key with
\* the rewritten value, every entry it dropped is gone whatever was written
\* to it, and a get that reads the cache returns the value stored then, the
\* rewritten one.
C18_RetainMutates ==
    /\ \A t \in Threads :
          (pc[t] = "retain_unlock" /\ f[t].mutate) =>
              /\ \A k \in Keys :
                    LET old == lin[self[t]][k]
                        new == HashMapGet(map[self[t]], k)
                    IN  IF old # None /\ k \in f[t].keys
                        THEN new = Some(Bump(old[1])) /\ new # old
                        ELSE new = None
              /\ {e.key : e \in map[self[t]]} =
                    {k \in f[t].keys : lin[self[t]][k] # None}
              /\ Cardinality(map[self[t]]) =
                    Cardinality({k \in f[t].keys : lin[self[t]][k] # None})
    /\ \A t \in Threads :
          pc[t] = "get_unlock" => ret[t] = lin[self[t]][spec[t]]

\* A rewriting retain has kept one entry, now with another value, and dropped
\* another one.
C18_Witness ==
    \E t \in Threads, k \in Keys, j \in Keys :
        /\ pc[t] = "retain_unlock"
        /\ f[t].mutate
        /\ k \in f[t].keys
        /\ lin[self[t]][k] # None
        /\ HashMapGet(map[self[t]], k) = Some(Bump(lin[self[t]][k][1]))
        /\ j \notin f[t].keys
        /\ lin[self[t]][j] # None
        /\ HashMapGet(map[self[t]], j) = None

\* C19 - retain and clear_all are atomic for the other callers: a table with
\* only a part of the entries dropped or rewritten exists only under the
\* write guard of the thread that is at it; the table a get reads, and the
\* table an insert starts from and takes its old value from, is a table as
\* a completed operation left it.
C19_Atomic ==
    /\ \A c \in Caches :
          Contents(map[c]) # lin[c] =>
              /\ writer[c] # NoThread
              /\ readers[c] = {}
              /\ \A t \in Threads \ {writer[c]} :
                    self[t] = c => pc[t] = "get_wait"
    /\ \A t \in Threads :
          /\ pc[t] \in {"get_read", "insert_take"} => Contents(map[self[t]]) = lin[self[t]]
          /\ pc[t] = "insert_put" => ret[t] = lin[self[t]][spec[t]]
          /\ pc[t] = "get_unlock" =>
                ret[t] = HashMapGet(map[self[t]], spec[t]) /\ ret[t] \in seen[t]

\* A retain has dropped one of two entries it will drop, the other is still
\* there, and a get of the dropped key waits for the lock.
C19_Witness ==
    \E t \in Threads, u \in Threads, e \in Entry :
        /\ pc[t] = "retain_visit"
        /\ e \in todo[t]
        /\ ~ClosureKeeps(f[t], e.key, e.val)
        /\ pc[u] = "get_wait"
        /\ self[u] = self[t]
        /\ lin[self[t]][spec[u]] # None
        /\ HashMapGet(map[self[t]], spec[u]) = None

\* The closure of thread t's retain waits for a guard of the cache the
\* retain itself holds the write guard of.
SelfDeadlocked(t) ==
    /\ pc[t] = "nested_wait"
    /\ f[t].cache = self[t]

\* C20 - Nothing guards against re-entrant use: a retain whose predicate
\* calls get, insert, retain or clear_all on the same cache waits inside the
\* predicate for the guard the retain holds; the nested call can never be
\* granted it, the retain never gets on, and the cache stays locked.
C20_ReentrantDeadlock ==
    /\ [](\A t \in Threads :
            SelfDeadlocked(t) =>
                /\ writer[self[t]] = t
                /\ ~ENABLED NestAcquire(t)
                /\ \A u \in Threads :
                      (pc[u] = "get_wait" /\ self[u] = self[t]) => ~ENABLED GetLock(u))
    /\ [][\A t \in Threads :
            SelfDeadlocked(t) =>
                /\ SelfDeadlocked(t)'
                /\ UNCHANGED <<map[self[t]], writer[self[t]], todo[t]>>]_vars

\* retain with a predicate that calls get on the same cache is stuck at its
\* first entry, and so is a get of another thread.
C20_Witness ==
    \E t \in Threads, u \in Threads :
        /\ SelfDeadlocked(t)
        /\ f[t].op = "get"
        /\ pc[u] = "get_wait"
        /\ self[u] = self[t]

====
